---- MODULE Spec2Model ----
(***************************************************************************)
(* Model of the Study Room Focus Simulator (src/app.js): the SoundEngine   *)
(* class, the DOM elements it reads and writes (volume sliders, status     *)
(* labels) and the call sites that drive it.                               *)
(*                                                                         *)
(* Units.  A gain value g of the program is held as the integer 1000 * g:  *)
(* (volume / 100) * 0.3 is volume * 3 and (volume / 100) * 0.2 is          *)
(* volume * 2.  Frequencies are in Hz, pan values are -1 and 1.            *)
(***************************************************************************)
EXTENDS Integers, Sequences, FiniteSets, TLC

VARIABLES audioContext, sounds, currentPlayingSound, slider, status,
          orphans, timer, constructed, calls, platform, last

vars == <<audioContext, sounds, currentPlayingSound, slider, status,
          orphans, timer, constructed, calls, platform, last>>

----------------------------------------------------------------------------
(* Values *)

NULL == "null"

\* The value slider[c] holds when the page has no slider for channel c.
NoSlider == -1

\* this.audioContext before a context is constructed (null).  A context
\* is its state, whether resume() has been called on it and is not settled
\* yet, and its identity: id n is the n-th context the engine constructed.
NoContext == [state |-> "none", resumeRequested |-> FALSE, id |-> 0]

\* Object.keys(this.sounds): the insertion order of the object literal.
SoundOrder == <<"rain", "alpha", "theta", "beta", "gamma">>

Channels == {SoundOrder[i] : i \in 1..Len(SoundOrder)}

\* The slider positions the model explores: a range input holds an integer
\* 0..100 and the operators below are defined for each of them; the steps
\* draw the position from the two ends.
Volumes == {0, 100}

DefaultVolume == 70

RainFactor == 3

BeatFactor == 2

baseFreq == 200

RetOf(b) == IF b THEN "true" ELSE "false"

----------------------------------------------------------------------------
(* The engine.  Every method is an operator from a world record            *)
(*   [audioContext, sounds, currentPlayingSound, slider, status, orphans,  *)
(*    timer, constructed, calls, ret]                                      *)
(* to the world record after the call; ret is what the call returned, or   *)
(* "throw" when it raised.  A node is a record: its kind, its side (of a   *)
(* binaural pair), its value (frequency, pan or gain), what it is          *)
(* connected to ("none" once disconnected), whether it is a started        *)
(* generator, and its owner: the channel whose graph it was created for    *)
(* (owner, kind and side together tell one node object from another).  orphans holds the nodes that have left every node list      *)
(* while still connected or generating; constructed counts the contexts    *)
(* the engine has constructed; calls holds the toggleSound calls that are  *)
(* suspended at an await, oldest first, each with its channel and the      *)
(* place (pc) it continues from.                                           *)

World == [audioContext |-> audioContext, sounds |-> sounds,
          currentPlayingSound |-> currentPlayingSound, slider |-> slider,
          status |-> status, orphans |-> orphans, timer |-> timer,
          constructed |-> constructed, calls |-> calls, ret |-> "none"]

Threw(w) == w.ret = "throw"

\* A construction that leaves the handle unset and raises nothing where the
\* platform has no AudioContext.
newAudioContext_Silent(w) ==
    IF ~platform.audio THEN w
    ELSE [w EXCEPT !.audioContext = [state |-> platform.born,
                                     resumeRequested |-> FALSE,
                                     id |-> w.constructed + 1],
                   !.constructed = @ + 1]

\* new (window.AudioContext || window.webkitAudioContext)(): raises where
\* the platform has neither.
newAudioContext(w) ==
    IF ~platform.audio THEN [w EXCEPT !.ret = "throw"]
    ELSE [w EXCEPT !.audioContext = [state |-> platform.born,
                                     resumeRequested |-> FALSE,
                                     id |-> w.constructed + 1],
                   !.constructed = @ + 1]

\* initAudioContext without the test of this.audioContext: every call
\* constructs a context.
initAudioContext_Always(w) ==
    LET made == newAudioContext(w)
    IN  IF Threw(made) THEN made
        ELSE IF made.audioContext.state = "suspended"
             THEN [made EXCEPT !.audioContext.resumeRequested = TRUE]
             ELSE made

\* initAudioContext()
initAudioContext(w) ==
    LET made == IF w.audioContext # NoContext THEN w
                ELSE newAudioContext(w)
    IN  IF Threw(made) THEN made
        ELSE IF made.audioContext.state = "suspended"
             THEN [made EXCEPT !.audioContext.resumeRequested = TRUE]
             ELSE made

\* getVolume(soundName): parseInt of the slider's value, 70 without a slider.
getVolume(w, soundName) ==
    IF w.slider[soundName] = NoSlider THEN DefaultVolume
    ELSE w.slider[soundName]

GainNode(c, v) ==
    [kind |-> "gain", side |-> "none", value |-> v, to |-> "destination",
     started |-> FALSE, owner |-> c]

\* createRainSound pushing the gain node before the noise source.
createRainSound_GainFirst(w, c) ==
    LET volume == getVolume(w, "rain")
        gainNode == GainNode(c, volume * RainFactor)
        brownNoise == [kind |-> "script", side |-> "none", value |-> 0,
                       to |-> "gain", started |-> FALSE, owner |-> c]
    IN  [w EXCEPT !.sounds[c].nodes = @ \o <<gainNode, brownNoise>>]

\* createRainSound(sound), sound being the record of channel c.  The value
\* of the script node is lastOut, the filter state of its onaudioprocess
\* closure, in units of 1/Scale.
createRainSound(w, c) ==
    LET volume == getVolume(w, "rain")
        gainNode == GainNode(c, volume * RainFactor)
        brownNoise == [kind |-> "script", side |-> "none", value |-> 0,
                       to |-> "gain", started |-> FALSE, owner |-> c]
    IN  [w EXCEPT !.sounds[c].nodes = @ \o <<brownNoise, gainNode>>]

\* The channel whose slider createBinauralBeat reads for channel c.
BeatVolumeSource(c) == IF c = "alpha" THEN "alpha" ELSE "theta"

\* createBinauralBeat(sound, frequency), sound being the record of channel c.
createBinauralBeat(w, c, frequency) ==
    LET volume == getVolume(w, BeatVolumeSource(c))
        gainNode == GainNode(c, volume * BeatFactor)
        leftOsc == [kind |-> "oscillator", side |-> "left",
                    value |-> baseFreq, to |-> "panner", started |-> TRUE,
                    owner |-> c]
        rightOsc == [kind |-> "oscillator", side |-> "right",
                     value |-> baseFreq + frequency, to |-> "panner",
                     started |-> TRUE, owner |-> c]
        leftPanner == [kind |-> "panner", side |-> "left", value |-> -1,
                       to |-> "gain", started |-> FALSE, owner |-> c]
        rightPanner == [kind |-> "panner", side |-> "right", value |-> 1,
                        to |-> "gain", started |-> FALSE, owner |-> c]
    IN  [w EXCEPT !.sounds[c].nodes =
            @ \o <<leftOsc, rightOsc, leftPanner, rightPanner, gainNode>>]

\* The dispatch of playSound with the beta and gamma frequencies exchanged.
BeatFrequency_Swapped(c) ==
    CASE c = "alpha" -> 10
      [] c = "theta" -> 6
      [] c = "beta"  -> 40
      [] c = "gamma" -> 20

\* The beat frequency playSound passes for a binaural channel.
BeatFrequency(c) ==
    CASE c = "alpha" -> 10
      [] c = "theta" -> 6
      [] c = "beta"  -> 20
      [] c = "gamma" -> 40

\* playSound(soundName)
playSound(w, c) ==
    LET w1 == initAudioContext(w)
        w2 == IF c = "rain" THEN createRainSound(w1, c)
              ELSE createBinauralBeat(w1, c, BeatFrequency(c))
    IN  IF Threw(w1) THEN w1
        ELSE [w2 EXCEPT !.sounds[c].playing = TRUE]

\* node.stop is defined for an oscillator only.
HasStop(node) == node.kind = "oscillator"

\* The forEach body with disconnect() moved inside the test of node.stop:
\* a node without stop() stays connected.
releaseNode_StopOnly(node) ==
    IF HasStop(node) THEN [node EXCEPT !.started = FALSE, !.to = "none"]
    ELSE node

\* The body of stopSound's forEach: node.stop() where the node has one (a
\* failure of it is caught and dropped), then node.disconnect().
releaseNode(node) ==
    LET halted == IF HasStop(node) THEN [node EXCEPT !.started = FALSE]
                  ELSE node
    IN  [halted EXCEPT !.to = "none"]

\* A node that is still connected or still generating.
Live(node) == node.to # "none" \/ node.started

\* The forEach of stopSound without its try/catch, from the i-th node on:
\* stop() of a generator that has ended raises and ends the call.
RECURSIVE stopFrom_NoCatch(_, _, _)
stopFrom_NoCatch(w, c, i) ==
    IF i > Len(w.sounds[c].nodes)
    THEN [w EXCEPT !.sounds[c] = [playing |-> FALSE, nodes |-> <<>>]]
    ELSE LET node == w.sounds[c].nodes[i]
         IN  IF HasStop(node) /\ ~node.started
             THEN [w EXCEPT !.ret = "throw"]
             ELSE stopFrom_NoCatch(
                      [w EXCEPT !.sounds[c].nodes[i] = releaseNode(node)],
                      c, i + 1)

\* stopSound without the try/catch around node.stop().
stopSound_NoCatch(w, c) == stopFrom_NoCatch(w, c, 1)

\* The nodes of channel c after stopSound's forEach.
releasedNodes(w, c) ==
    {releaseNode(w.sounds[c].nodes[i]) : i \in 1..Len(w.sounds[c].nodes)}

\* stopSound without the statement that empties the node list.
stopSound_KeepNodes(w, c) ==
    [w EXCEPT !.sounds[c].nodes =
                 [i \in 1..Len(@) |-> releaseNode(@[i])],
              !.sounds[c].playing = FALSE]

\* stopSound(soundName): every node is halted (when it can be) and
\* disconnected, then the list is emptied.
stopSound(w, c) ==
    [w EXCEPT !.orphans = @ \cup {n \in releasedNodes(w, c) : Live(n)},
              !.sounds[c] = [playing |-> FALSE, nodes |-> <<>>]]

\* toggleSound returning the playing flag it read before the change.
toggleSound_StaleReturn(w, c) ==
    LET w1 == initAudioContext(w)
        w2 == IF w1.sounds[c].playing THEN stopSound(w1, c)
              ELSE playSound(w1, c)
    IN  IF Threw(w1) THEN w1
        ELSE IF c \notin Channels THEN [w1 EXCEPT !.ret = "throw"]
        ELSE IF Threw(w2) THEN w2
        ELSE [w2 EXCEPT !.ret = RetOf(w1.sounds[c].playing)]

\* toggleSound that stops every other channel before it starts one.
toggleSound_Exclusive(w, c) ==
    LET w1 == initAudioContext(w)
        w2 == IF w1.sounds[c].playing THEN stopSound(w1, c)
              ELSE playSound([w1 EXCEPT !.sounds =
                                 [d \in Channels |->
                                     [playing |-> FALSE, nodes |-> <<>>]]], c)
    IN  IF Threw(w1) THEN w1
        ELSE IF c \notin Channels THEN [w1 EXCEPT !.ret = "throw"]
        ELSE IF Threw(w2) THEN w2
        ELSE [w2 EXCEPT !.ret = RetOf(w2.sounds[c].playing)]

\* toggleSound(soundName): for a soundName with no entry in this.sounds the
\* read of sound.playing raises, after initAudioContext has run.
toggleSound(w, c) ==
    LET w1 == initAudioContext(w)
        w2 == IF w1.sounds[c].playing THEN stopSound(w1, c)
              ELSE playSound(w1, c)
    IN  IF Threw(w1) THEN w1
        ELSE IF c \notin Channels THEN [w1 EXCEPT !.ret = "throw"]
        ELSE IF Threw(w2) THEN w2
        ELSE [w2 EXCEPT !.ret = RetOf(w2.sounds[c].playing)]

\* setVolume without the guard on playing and on the list's length: on a
\* stopped channel nodes[-1] is undefined and reading its gain raises.
setVolume_Unguarded(w, c, volume) ==
    LET sound == w.sounds[c]
        n == Len(sound.nodes)
        multiplier == IF c = "rain" THEN 3 ELSE 2
    IN  IF n = 0 THEN [w EXCEPT !.ret = "throw"]
        ELSE IF sound.nodes[n].kind = "gain"
        THEN [w EXCEPT !.sounds[c].nodes[n].value = volume * multiplier]
        ELSE w

\* setVolume(soundName, volume)
setVolume(w, c, volume) ==
    LET sound == w.sounds[c]
        n == Len(sound.nodes)
        multiplier == IF c = "rain" THEN 3 ELSE 2
    IN  IF sound.playing /\ n > 0 /\ sound.nodes[n].kind = "gain"
        THEN [w EXCEPT !.sounds[c].nodes[n].value = volume * multiplier]
        ELSE w

\* The body of stopAllSounds' forEach, for the i-th key onwards.
RECURSIVE stopAllFrom(_, _)
stopAllFrom(w, i) ==
    IF i > Len(SoundOrder) THEN w
    ELSE LET c == SoundOrder[i]
         IN  IF w.sounds[c].playing
             THEN stopAllFrom([stopSound(w, c) EXCEPT !.status[c] = ""], i + 1)
             ELSE stopAllFrom(w, i + 1)

\* stopAllSounds without the statement that clears the memory.
stopAllSounds_KeepMemory(w) == stopAllFrom(w, 1)

\* stopAllSounds()
stopAllSounds(w) ==
    [stopAllFrom(w, 1) EXCEPT !.currentPlayingSound = NULL]

\* The forEach of pauseSounds without the update of the status label.
RECURSIVE pauseFrom_KeepStatus(_, _)
pauseFrom_KeepStatus(w, i) ==
    IF i > Len(SoundOrder) THEN w
    ELSE LET c == SoundOrder[i]
             w1 == [w EXCEPT !.currentPlayingSound = c]
         IN  IF w.sounds[c].playing
             THEN pauseFrom_KeepStatus(stopSound(w1, c), i + 1)
             ELSE pauseFrom_KeepStatus(w, i + 1)

\* The body of pauseSounds' forEach, for the i-th key onwards.
RECURSIVE pauseFrom(_, _)
pauseFrom(w, i) ==
    IF i > Len(SoundOrder) THEN w
    ELSE LET c == SoundOrder[i]
             w1 == [w EXCEPT !.currentPlayingSound = c]
         IN  IF w.sounds[c].playing
             THEN pauseFrom([stopSound(w1, c) EXCEPT !.status[c] = ""], i + 1)
             ELSE pauseFrom(w, i + 1)

\* pauseSounds that records the first playing channel it meets, not the
\* last.
pauseSounds_FirstWins(w) ==
    LET met == {i \in 1..Len(SoundOrder) : w.sounds[SoundOrder[i]].playing}
        first == CHOOSE i \in met : \A j \in met : i <= j
    IN  IF met = {} THEN w
        ELSE [pauseFrom(w, 1) EXCEPT !.currentPlayingSound = SoundOrder[first]]

\* pauseSounds that stops the channels and records none of them.
pauseSounds_Forget(w) ==
    [pauseFrom(w, 1) EXCEPT !.currentPlayingSound = w.currentPlayingSound]

\* pauseSounds()
pauseSounds(w) == pauseFrom(w, 1)

\* resumeSounds(): the value of toggleSound goes to the status label only;
\* the method has no return statement, so a call that completes yields
\* undefined ("none").
resumeSounds(w) ==
    IF w.currentPlayingSound # NULL
    THEN LET soundName == w.currentPlayingSound
             w1 == toggleSound(w, soundName)
         IN  IF Threw(w1) THEN w1
             ELSE [w1 EXCEPT !.status[soundName] =
                                IF w1.ret = "true" THEN "Playing" ELSE "",
                             !.ret = "none"]
    ELSE [w EXCEPT !.ret = "none"]

----------------------------------------------------------------------------
(* The timer.  Durations are counted in ticks of the interval; the model   *)
(* keeps the three modes' durations short and in the program's order       *)
(* (short break < long break < focus session).                             *)

FocusDuration == 3

ShortDuration == 1

LongDuration == 2

\* The ticks of one minute of a custom duration, and the minutes offered.
MinuteTicks == 1

MaxCustomMinutes == 1

Modes == {"focus", "short", "long"}

\* this.modes[mode].duration
ModeDuration(mode) ==
    CASE mode = "focus" -> FocusDuration
      [] mode = "short" -> ShortDuration
      [] mode = "long"  -> LongDuration

\* new PomodoroTimer()
NewTimer ==
    [currentMode |-> "focus", timeRemaining |-> FocusDuration,
     isRunning |-> FALSE, interval |-> FALSE, totalTime |-> FocusDuration]

\* PomodoroTimer.start(): interval is TRUE while a setInterval is scheduled.
timerStart(w) ==
    IF ~w.timer.isRunning
    THEN [w EXCEPT !.timer.isRunning = TRUE, !.timer.interval = TRUE]
    ELSE w

\* PomodoroTimer.pause()
timerPause(w) ==
    [w EXCEPT !.timer.isRunning = FALSE, !.timer.interval = FALSE]

\* PomodoroTimer.reset()
timerReset(w) ==
    LET w1 == timerPause(w)
        w2 == [w1 EXCEPT !.timer.timeRemaining = w1.timer.totalTime]
    IN  stopAllSounds(w2)

\* complete() without the call of soundEngine.stopAllSounds().
timerComplete_KeepSounds(w) ==
    LET w1 == timerPause(w)
    IN  IF ~platform.audio THEN [w1 EXCEPT !.ret = "throw"]
        ELSE [w1 EXCEPT !.timer.timeRemaining = w1.timer.totalTime]

\* PomodoroTimer.complete(): playNotificationSound constructs an
\* AudioContext of its own and raises where the platform has none.
timerComplete(w) ==
    LET w1 == timerPause(w)
        w2 == stopAllSounds(w1)
    IN  IF ~platform.audio THEN [w1 EXCEPT !.ret = "throw"]
        ELSE [w2 EXCEPT !.timer.timeRemaining = w2.timer.totalTime]

\* PomodoroTimer.tick()
timerTick(w) ==
    IF w.timer.timeRemaining > 0
    THEN [w EXCEPT !.timer.timeRemaining = @ - 1]
    ELSE timerComplete(w)

\* PomodoroTimer.setMode(mode)
timerSetMode(w, mode) ==
    LET w1 == timerPause(w)
    IN  [w1 EXCEPT !.timer.currentMode = mode,
                   !.timer.totalTime = ModeDuration(mode),
                   !.timer.timeRemaining = ModeDuration(mode)]

\* The timer part of SettingsManager.loadSettings(): timer.setMode(timerMode)
\* when localStorage holds a timer mode (NULL: none saved).
loadSettings(t, timerMode) ==
    IF timerMode = NULL THEN t
    ELSE timerSetMode([timer |-> t], timerMode).timer

\* PomodoroTimer.setCustomDuration(minutes)
timerSetCustomDuration(w, minutes) ==
    LET w1 == timerPause(w)
    IN  [w1 EXCEPT !.timer.totalTime = minutes * MinuteTicks,
                   !.timer.timeRemaining = minutes * MinuteTicks]

----------------------------------------------------------------------------
(* Observations *)

PlayingSet == {c \in Channels : sounds[c].playing}

\* The gain value (times 1000) of channel c's last node.
GainOf(c) == sounds[c].nodes[Len(sounds[c].nodes)].value

----------------------------------------------------------------------------
(* Steps *)

\* Whether operation op on channel ch comes right after the operation the
\* pair properties are about: a pauseAll before a resumeLast, a toggle of
\* the same channel before a toggle, the end of a generator of the channel
\* before a stop.
Follows(op, ch) ==
    CASE op = "resumeLast" -> last.op = "pauseAll"
      [] op = "toggle" -> (last.op = "toggle" /\ last.ch = ch)
      [] op = "stop" -> (last.op = "halted" /\ last.ch = ch)
      [] OTHER -> FALSE

\* The variables of the world become those of the world record w.
Becomes(w) ==
    /\ audioContext' = w.audioContext
    /\ sounds' = w.sounds
    /\ currentPlayingSound' = w.currentPlayingSound
    /\ slider' = w.slider
    /\ status' = w.status
    /\ orphans' = w.orphans
    /\ timer' = w.timer
    /\ constructed' = w.constructed
    /\ calls' = w.calls

\* Whether, after operation op, the session is one the user has paused: a
\* pause of the running timer together with the sounds makes it so; a
\* timer that runs again, a reset, a change of mode or duration and a
\* completion end it.  (Read after the step's timer is known.)
UserPaused(op) ==
    IF op = "pauseAll" /\ timer.isRunning THEN TRUE
    ELSE IF timer'.isRunning
            \/ op \in {"reset", "setMode", "setCustom", "complete"}
         THEN FALSE
    ELSE last.paused

\* last records the operation, its arguments, what it returned, what held
\* when it was called (pre: the channels playing, mem: the last-played
\* memory), and whether the session is now paused by the user.
Note(op, ch, vol, ret) ==
    last' = [op |-> op, ch |-> ch, vol |-> vol, ret |-> ret,
             pre |-> PlayingSet, mem |-> currentPlayingSound,
             follows |-> Follows(op, ch), paused |-> UserPaused(op)]

\* The click handler of a sound button: toggle, then show the result.
soundButtonHandler(w, c) ==
    LET w1 == toggleSound(w, c)
    IN  IF Threw(w1) THEN w1
        ELSE [w1 EXCEPT !.status[c] =
                           IF w1.ret = "true" THEN "Playing" ELSE ""]

\* A click on the sound button of channel c.  (In every step w is the world
\* the handler leaves behind.)
SoundButtonClick(c) ==
    /\ \E w \in {soundButtonHandler(World, c)} :
           Becomes(w) /\ Note("toggle", c, -1, w.ret)
    /\ UNCHANGED platform

\* The input handler of a volume slider, which the user has moved to p.
SliderInput(c, p) ==
    /\ slider[c] # NoSlider
    /\ slider[c] # p
    /\ \E w \in {setVolume([World EXCEPT !.slider[c] = p], c, p)} :
           Becomes(w) /\ Note("setVolume", c, p, w.ret)
    /\ UNCHANGED platform

\* soundEngine.stopAllSounds()
StopAll ==
    /\ \E w \in {stopAllSounds(World)} :
           Becomes(w) /\ Note("stopAll", NULL, -1, w.ret)
    /\ UNCHANGED platform

\* soundEngine.pauseSounds()
PauseAll ==
    /\ \E w \in {pauseSounds(World)} :
           Becomes(w) /\ Note("pauseAll", NULL, -1, w.ret)
    /\ UNCHANGED platform

\* soundEngine.resumeSounds()
ResumeLast ==
    /\ \E w \in {resumeSounds(World)} :
           Becomes(w) /\ Note("resumeLast", currentPlayingSound, -1, w.ret)
    /\ UNCHANGED platform

StoppedSound == [playing |-> FALSE, nodes |-> <<>>]

\* The platforms: with audio, handing out running or suspended contexts,
\* and without audio (where born is never read).
Platforms ==
    {[audio |-> TRUE, born |-> "running"],
     [audio |-> TRUE, born |-> "suspended"],
     [audio |-> FALSE, born |-> "running"]}

\* The page once DOMContentLoaded has constructed its objects: a fresh
\* engine, and a fresh timer that loadSettings has put in the saved mode.
InitEngine ==
    /\ audioContext = NoContext
    /\ sounds = [c \in Channels |-> StoppedSound]
    /\ currentPlayingSound = NULL
    /\ status = [c \in Channels |-> ""]
    /\ orphans = {}
    /\ \E timerMode \in Modes \cup {NULL} :
           timer = loadSettings(NewTimer, timerMode)
    /\ constructed = 0
    /\ calls = <<>>
    /\ last = [op |-> "init", ch |-> NULL, vol |-> -1, ret |-> "none",
               pre |-> {}, mem |-> NULL, follows |-> FALSE,
               paused |-> FALSE]

\* The platform (platform.audio: window.AudioContext exists; platform.born:
\* the state of a freshly constructed context) is one that offers audio and
\* hands out running contexts.  The sliders are where loadSettings put them,
\* or the page has none.
Init ==
    /\ InitEngine
    /\ platform = [audio |-> TRUE, born |-> "running"]
    /\ \/ slider \in [Channels -> Volumes]
       \/ slider = [c \in Channels |-> NoSlider]

Next ==
    \/ \E c \in Channels : SoundButtonClick(c)
    \/ \E c \in Channels, p \in Volumes : SliderInput(c, p)
    \/ StopAll
    \/ PauseAll
    \/ ResumeLast

Spec == Init /\ [][Next]_vars

----------------------------------------------------------------------------
(* The page: the handlers of the timer controls *)

\* What prompt() can return to the start button's handler: null when it is
\* cancelled, else the text typed ("9" stands for any text that names no
\* property of soundMap, "constructor" for the names of the properties the
\* object literal inherits: constructor, toString, __proto__, ...).
Choices == {"cancel", "", "0", "1", "2", "3", "4", "5", "9", "constructor"}

\* What soundMap holds under an inherited name: a function or an object of
\* Object.prototype, truthy and the name of no channel.
InheritedProperty == "function Object"

\* soundMap[soundChoice], NULL where the lookup finds nothing.
soundMap(choice) ==
    CASE choice = "1" -> "rain"
      [] choice = "2" -> "alpha"
      [] choice = "3" -> "theta"
      [] choice = "4" -> "beta"
      [] choice = "5" -> "gamma"
      [] choice = "constructor" -> InheritedProperty
      [] OTHER -> NULL

\* The start button's handler while the timer runs: pause timer and sounds.
StartButtonPause ==
    /\ timer.isRunning
    /\ \E w \in {pauseSounds(timerPause(World))} :
           Becomes(w) /\ Note("pauseAll", NULL, -1, w.ret)
    /\ UNCHANGED platform

\* The start button's handler on a stopped timer with time used up
\* (wasPaused): restart the timer, resume the remembered sound.
StartButtonResume ==
    /\ ~timer.isRunning
    /\ timer.timeRemaining < timer.totalTime
    /\ \E w \in {resumeSounds(timerStart(World))} :
           Becomes(w) /\ Note("resumeLast", currentPlayingSound, -1, w.ret)
    /\ UNCHANGED platform

\* The fresh-start branch for the answer choice of the prompt.
freshStart(w, choice) ==
    LET soundName == soundMap(choice)
        w1 == toggleSound(w, soundName)
        w2 == [w1 EXCEPT !.status[soundName] =
                            IF w1.ret = "true" THEN "Playing" ELSE "",
                         !.currentPlayingSound = soundName]
    IN  IF choice \in {"cancel", ""} THEN w
        ELSE IF soundName # NULL
             THEN IF Threw(w1) THEN w1 ELSE timerStart(w2)
        ELSE IF choice = "0"
             THEN timerStart([w EXCEPT !.currentPlayingSound = NULL])
        ELSE w

\* The start button's handler on a stopped timer with no time used up
\* (last.ch: the channel the answer chose, if it chose one).
StartButtonFresh(choice) ==
    /\ ~timer.isRunning
    /\ ~(timer.timeRemaining < timer.totalTime)
    /\ \E w \in {freshStart(World, choice)} :
           Becomes(w) /\ Note("freshStart",
                              IF soundMap(choice) \in Channels
                              THEN soundMap(choice) ELSE NULL,
                              -1, w.ret)
    /\ UNCHANGED platform

\* The reset button's handler.
ResetButtonClick ==
    /\ \E w \in {timerReset(World)} :
           Becomes(w) /\ Note("reset", NULL, -1, w.ret)
    /\ UNCHANGED platform

\* A mode button's handler.
ModeButtonClick(mode) ==
    /\ \E w \in {timerSetMode(World, mode)} :
           Becomes(w) /\ Note("setMode", NULL, -1, w.ret)
    /\ UNCHANGED platform

\* The custom-duration button's handler, for an accepted number of minutes.
SetCustomClick(minutes) ==
    /\ minutes > 0 /\ minutes <= 120
    /\ \E w \in {timerSetCustomDuration(World, minutes)} :
           Becomes(w) /\ Note("setCustom", NULL, -1, w.ret)
    /\ UNCHANGED platform

\* One firing of the timer's interval.
Tick ==
    /\ timer.interval
    /\ \E w \in {timerTick(World)} :
           Becomes(w)
           /\ Note(IF timer.timeRemaining > 0 THEN "tick" ELSE "complete",
                   NULL, -1, w.ret)
    /\ UNCHANGED platform

\* The page as loaded, one without volume sliders: no slider handler is
\* attached and getVolume gives every channel the default.
InitUI ==
    /\ InitEngine
    /\ platform = [audio |-> TRUE, born |-> "running"]
    /\ slider = [c \in Channels |-> NoSlider]

NextUI ==
    \/ \E c \in Channels : SoundButtonClick(c)
    \/ StartButtonPause
    \/ StartButtonResume
    \/ \E choice \in Choices : StartButtonFresh(choice)
    \/ ResetButtonClick
    \/ \E mode \in Modes : ModeButtonClick(mode)
    \/ \E minutes \in 1..MaxCustomMinutes : SetCustomClick(minutes)
    \/ Tick

SpecUI == InitUI /\ [][NextUI]_vars

\* The platform settles the pending resume(): the context runs.
PlatformResolve ==
    /\ audioContext.state = "suspended"
    /\ audioContext.resumeRequested
    /\ \E w \in {[World EXCEPT !.audioContext.state = "running",
                               !.audioContext.resumeRequested = FALSE]} :
           Becomes(w) /\ Note("resolved", NULL, -1, w.ret)
    /\ UNCHANGED platform

----------------------------------------------------------------------------
(* A session left to run: the user clicks the start button while the       *)
(* timer is stopped and switches sounds, and never pauses, resets or       *)
(* changes the mode or the duration.  While the interval is scheduled the  *)
(* platform keeps calling tick().  The page runs on any platform: one      *)
(* without AudioContext, where a start click after a completion that       *)
(* raised takes the resume branch, and one that hands out suspended        *)
(* contexts and settles their resume().                                    *)

InitRun ==
    /\ InitEngine
    /\ platform \in Platforms
    /\ slider = [c \in Channels |-> NoSlider]

NextRun ==
    \/ \E choice \in Choices : StartButtonFresh(choice)
    \/ StartButtonResume
    \/ \E c \in Channels : SoundButtonClick(c)
    \/ Tick
    \/ PlatformResolve

\* A tick can be taken exactly while the interval is scheduled, and it
\* always changes the timer.
TickEnabled == timer.interval

\* Weak fairness of Tick, WF_vars(Tick), with ENABLED <<Tick>>_vars written
\* as TickEnabled: setInterval keeps firing until clearInterval.
TickFairness == []<>(~TickEnabled) \/ []<><<Tick>>_vars

SpecRun == InitRun /\ [][NextRun]_vars /\ TickFairness

----------------------------------------------------------------------------
(* The engine on any platform.  A platform may offer no AudioContext, or   *)
(* hand out contexts that are suspended until it settles a resume()        *)
(* request.                                                                *)

\* The page has no sliders; the platform is any of the three.
InitPlatform ==
    /\ InitEngine
    /\ platform \in Platforms
    /\ slider = [c \in Channels |-> NoSlider]

NextPlatform ==
    \/ \E c \in Channels : SoundButtonClick(c)
    \/ StopAll
    \/ PauseAll
    \/ ResumeLast
    \/ PlatformResolve

SpecPlatform == InitPlatform /\ [][NextPlatform]_vars

----------------------------------------------------------------------------
(* The rain generator.  Sample values are held in units of 1/Scale. A      *)
(* double result lies between the two grid values around the exact         *)
(* quotient; the model allows both.                                        *)

Scale == 100

\* The samples of one block (4096 in the program).
bufferSize == 2

\* Math.random() * 2 - 1, at its two ends and in the middle.
WhiteSamples == {-Scale, 0, Scale}

\* The filter step with the divisor 1.02 left out.
brownStep_NoLeak(y, white) ==
    LET num == 100 * y + 2 * white
    IN  {num \div 100, -((-num) \div 100)}

\* (lastOut + (0.02 * white)) / 1.02, that is (100 y + 2 white) / 102,
\* rounded down or up.
brownStep(y, white) ==
    LET num == 100 * y + 2 * white
    IN  {num \div 102, -((-num) \div 102)}

\* The values lastOut can have after the first k samples of whites.
RECURSIVE onaudioprocess(_, _, _)
onaudioprocess(y, whites, k) ==
    IF k = 0 THEN {y}
    ELSE UNION {brownStep(z, whites[k]) : z \in onaudioprocess(y, whites, k - 1)}

\* The script node of a playing rain channel is its first node.
RainRuns ==
    /\ sounds["rain"].playing
    /\ sounds["rain"].nodes[1].kind = "script"
    /\ sounds["rain"].nodes[1].to # "none"

lastOut == sounds["rain"].nodes[1].value

\* The audio thread calls onaudioprocess for one block of samples.
AudioProcess(whites) ==
    /\ RainRuns
    /\ \E w \in {[World EXCEPT !.sounds["rain"].nodes[1].value = y] :
                     y \in onaudioprocess(lastOut, whites, bufferSize)} :
           Becomes(w) /\ Note("audioprocess", "rain", -1, w.ret)
    /\ UNCHANGED platform

InitRain ==
    /\ InitEngine
    /\ platform = [audio |-> TRUE, born |-> "running"]
    /\ slider = [c \in Channels |-> NoSlider]

NextRain ==
    \/ SoundButtonClick("rain")
    \/ \E whites \in [1..bufferSize -> WhiteSamples] : AudioProcess(whites)

SpecRain == InitRain /\ [][NextRain]_vars

----------------------------------------------------------------------------
(* Overlapping calls: a caller that does not await toggleSound before it   *)
(* calls again.  A call runs up to its await in one step and continues in  *)
(* a later one.                                                            *)

\* The toggleSound calls that may be suspended at one time.
MaxCalls == 2

\* toggleSound taking its decision and then yielding before playSound has
\* built anything (pc "play").
toggleCall_YieldBeforePlay(w, c) ==
    LET w1 == initAudioContext(w)
        w2 == stopSound(w1, c)
    IN  IF Threw(w1) THEN w1
        ELSE IF w1.sounds[c].playing
             THEN [w2 EXCEPT !.ret = RetOf(w2.sounds[c].playing)]
        ELSE [w1 EXCEPT !.calls = Append(@, [ch |-> c, pc |-> "play"]),
                        !.ret = "pending"]

\* toggleSound(soundName) up to the point where it first yields: the stop
\* branch runs to its return; in the start branch playSound, which has no
\* await of its own, runs to its end and the call is suspended at
\* `await this.playSound(soundName)` (pc "return").
toggleCall(w, c) ==
    LET w1 == initAudioContext(w)
        w2 == IF w1.sounds[c].playing THEN stopSound(w1, c)
              ELSE playSound(w1, c)
    IN  IF Threw(w1) THEN w1
        ELSE IF Threw(w2) THEN w2
        ELSE IF w1.sounds[c].playing
             THEN [w2 EXCEPT !.ret = RetOf(w2.sounds[c].playing)]
        ELSE [w2 EXCEPT !.calls = Append(@, [ch |-> c, pc |-> "return"]),
                        !.ret = "pending"]

\* The sequence q without its i-th element.
RemoveAt(q, i) == SubSeq(q, 1, i - 1) \o SubSeq(q, i + 1, Len(q))

\* The i-th suspended call continues: from pc "return" it returns
\* sound.playing as it is now; from pc "play" the body of playSound runs
\* and the call is suspended again at the await.
toggleContinue(w, i) ==
    LET call == w.calls[i]
        w1 == playSound(w, call.ch)
    IN  IF call.pc = "return"
        THEN [w EXCEPT !.calls = RemoveAt(@, i),
                       !.ret = RetOf(w.sounds[call.ch].playing)]
        ELSE IF Threw(w1) THEN [w1 EXCEPT !.calls = RemoveAt(@, i)]
        ELSE [w1 EXCEPT !.calls[i].pc = "return"]

\* A caller calls soundEngine.toggleSound(c) and does not wait for it.
ToggleCall(c) ==
    /\ Len(calls) < MaxCalls
    /\ \E w \in {toggleCall(World, c)} :
           Becomes(w) /\ Note("toggle", c, -1, w.ret)
    /\ UNCHANGED platform

\* The i-th suspended call is continued.
ToggleContinue(i) ==
    /\ i <= Len(calls)
    /\ \E w \in {toggleContinue(World, i)} :
           Becomes(w) /\ Note("continue", calls[i].ch, -1, w.ret)
    /\ UNCHANGED platform

InitOverlap ==
    /\ InitEngine
    /\ platform = [audio |-> TRUE, born |-> "running"]
    /\ slider = [c \in Channels |-> NoSlider]

NextOverlap ==
    \/ \E c \in Channels : ToggleCall(c)
    \/ \E i \in 1..MaxCalls : ToggleContinue(i)
    \/ StopAll

SpecOverlap == InitOverlap /\ [][NextOverlap]_vars

----------------------------------------------------------------------------
(* The engine with generators that end on their own, and stopSound called  *)
(* on any channel.                                                         *)

\* The generators the platform may have ended at one time.
MaxHalted == 1

\* The number of generators in the node lists that have ended.
HaltedCount ==
    Cardinality({<<c, i>> \in Channels \X (1..5) :
                    /\ i <= Len(sounds[c].nodes)
                    /\ HasStop(sounds[c].nodes[i])
                    /\ ~sounds[c].nodes[i].started})

\* The platform ends the i-th node of channel c, a running generator; a
\* later stop() of that node raises.
PlatformHalts(c, i) ==
    /\ i <= Len(sounds[c].nodes)
    /\ HasStop(sounds[c].nodes[i])
    /\ sounds[c].nodes[i].started
    /\ HaltedCount < MaxHalted
    /\ \E w \in {[World EXCEPT !.sounds[c].nodes[i].started = FALSE]} :
           Becomes(w) /\ Note("halted", c, -1, w.ret)
    /\ UNCHANGED platform

\* soundEngine.stopSound(c), called on channel c in whatever state it is.
StopSound(c) ==
    /\ \E w \in {stopSound(World, c)} :
           Becomes(w) /\ Note("stop", c, -1, w.ret)
    /\ UNCHANGED platform

\* The page has no sliders; the platform offers audio.
InitHalt ==
    /\ InitEngine
    /\ platform = [audio |-> TRUE, born |-> "running"]
    /\ slider = [c \in Channels |-> NoSlider]

NextHalt ==
    \/ \E c \in Channels : SoundButtonClick(c)
    \/ StopAll
    \/ PauseAll
    \/ ResumeLast
    \/ \E c \in Channels : StopSound(c)
    \/ \E c \in Channels, i \in 1..5 : PlatformHalts(c, i)

SpecHalt == InitHalt /\ [][NextHalt]_vars

----------------------------------------------------------------------------
(* Properties *)

Nodes(c) == sounds[c].nodes

\* C1: between engine operations, every channel is playing if and only if
\* its owned node list is non-empty.
C1_PlayingIffNodes ==
    \A c \in Channels : sounds[c].playing <=> Nodes(c) # <<>>

\* C1 witness: with a last-played channel remembered, a toggle leaves the
\* rain channel and a binaural channel playing, each with its node list,
\* and another channel stopped with none.
C1_Witness ==
    /\ last.op = "toggle"
    /\ currentPlayingSound # NULL
    /\ \E c \in Channels : sounds[c].playing /\ Len(Nodes(c)) = 5
    /\ \E c \in Channels : sounds[c].playing /\ Len(Nodes(c)) = 2
    /\ \E c \in Channels : ~sounds[c].playing /\ Nodes(c) = <<>>

\* C2: toggle(c) flips channel c and returns the resulting playing state
\* (true after starting a stopped channel, false after stopping a playing
\* one, whose node list is then empty); a toggle of a stopped channel
\* followed at once by a second toggle of it returns true and then false
\* and leaves the channel stopped with an empty node list.
C2_ToggleFlips ==
    [][\A c \in Channels :
         (last'.op = "toggle" /\ last'.ch = c) =>
            /\ sounds'[c].playing = ~sounds[c].playing
            /\ last'.ret = RetOf(~sounds[c].playing)
            /\ sounds'[c].playing => sounds'[c].nodes # <<>>
            /\ ~sounds'[c].playing => sounds'[c].nodes = <<>>
            /\ (last.op = "toggle" /\ last.ch = c /\ last.ret = "true") =>
                  /\ last'.ret = "false"
                  /\ sounds'[c] = StoppedSound]_vars

\* C2 witness: the second of two successive toggles of one channel has
\* returned false and the channel is stopped with an empty node list.
C2_Witness ==
    /\ last.op = "toggle"
    /\ last.follows
    /\ last.ret = "false"
    /\ sounds[last.ch] = StoppedSound

\* C3: when exactly one channel c is playing, pauseAll() followed at once
\* by resumeLast() ends with c playing and every other channel stopped.
C3_PauseResumeRestores ==
    [][(/\ last.op = "pauseAll"
        /\ Cardinality(last.pre) = 1
        /\ last'.op = "resumeLast") =>
            {c \in Channels : sounds'[c].playing} = last.pre]_vars

\* C3 witness: resumeLast() has run right after a pauseAll() and exactly
\* the remembered channel plays.
C3_Witness ==
    /\ last.op = "resumeLast"
    /\ last.follows
    /\ last.pre = {}
    /\ last.ch # NULL
    /\ last.ret = "none"
    /\ status[last.ch] = "Playing"
    /\ PlayingSet = {last.ch}

\* C4: after stopAll(), whatever was playing and remembered, every channel
\* is stopped with an empty node list and the last-played memory is empty,
\* and a resumeLast() issued next changes no channel state.
C4_StopAllClears ==
    [][/\ last'.op = "stopAll" =>
             /\ \A c \in Channels : sounds'[c] = StoppedSound
             /\ currentPlayingSound' = NULL
       /\ (last.op = "stopAll" /\ last'.op = "resumeLast") =>
             /\ sounds' = sounds
             /\ currentPlayingSound' = currentPlayingSound
             /\ last'.ret = "none"]_vars

\* C4 witness: stopAll() has run with several channels playing and a
\* channel remembered, and nothing plays or is remembered any more.
C4_Witness ==
    /\ last.op = "stopAll"
    /\ Cardinality(last.pre) >= 2
    /\ last.mem # NULL
    /\ PlayingSet = {}
    /\ currentPlayingSound = NULL

\* C5: whenever a last-played identifier c is recorded, resumeLast() turns
\* channel c on: after it c is playing and the reported state is true
\* (the channel's status label, where resumeSounds reports it, reads
\* 'Playing'), whether c was stopped or already playing when it was called.
C5_ResumeTurnsOn ==
    (last.op = "resumeLast" /\ last.mem # NULL) =>
        /\ sounds[last.mem].playing
        /\ status[last.mem] = "Playing"

\* C6: the last-played memory identifies only a channel that was playing
\* when the most recent pauseAll() was called; stated for a resumeLast()
\* that comes right after that pauseAll(): every channel it starts was
\* playing when the pauseAll() was called, so a pauseAll() called while
\* nothing plays leaves no older channel resumable.
C6_ResumeOnlyWhatWasPaused ==
    [][(last.op = "pauseAll" /\ last'.op = "resumeLast") =>
          \A c \in Channels :
              (sounds'[c].playing /\ ~sounds[c].playing) => c \in last.pre]_vars

\* The gain (times 1000) the claims give channel c at volume v:
\* v/100 * 0.3 for rain and v/100 * 0.2 for a binaural channel.
ClaimedGain(c, v) == IF c = "rain" THEN v * 3 ELSE v * 2

\* The requested volume of channel c: its slider's value, 70 without one.
RequestedVolume(c) == IF slider[c] = NoSlider THEN 70 ELSE slider[c]

\* C7: when any channel c starts, its gain is set from the requested volume
\* of that same channel c (70 when there is no slider): volume(c)/100 * 0.3
\* for rain, volume(c)/100 * 0.2 for alpha, theta, beta and gamma.
C7_StartGainFromOwnVolume ==
    (/\ last.op \in {"toggle", "resumeLast"}
     /\ last.ch # NULL
     /\ last.ch \notin last.pre
     /\ sounds[last.ch].playing) =>
        GainOf(last.ch) = ClaimedGain(last.ch, RequestedVolume(last.ch))

\* The gain (times 1000) a fresh start of channel c would use now.
FreshStartGain(c) ==
    LET w == playSound(stopSound(World, c), c)
    IN  w.sounds[c].nodes[Len(w.sounds[c].nodes)].value

\* C8: setVolume(c, p) on a playing channel sets its gain to p/100 * 0.3
\* (rain) or p/100 * 0.2 (binaural), and that value is the gain a fresh
\* start of c would use when the requested volume of c is p.
C8_SetVolumeMatchesStart ==
    (last.op = "setVolume" /\ sounds[last.ch].playing) =>
        /\ GainOf(last.ch) = ClaimedGain(last.ch, last.vol)
        /\ RequestedVolume(last.ch) = last.vol
        /\ GainOf(last.ch) = FreshStartGain(last.ch)

\* A node list differs from another at most in the value of its last node.
SameButLastValue(ns, ms) ==
    /\ Len(ns) = Len(ms)
    /\ \A i \in 1..Len(ns) :
          IF i = Len(ns) THEN [ns[i] EXCEPT !.value = ms[i].value] = ms[i]
          ELSE ns[i] = ms[i]

\* C9: setVolume(c, p) on a stopped channel raises nothing and changes
\* nothing; in every state it leaves the playing flag and the node list of
\* every channel, the last-played memory and the audio context as they
\* were, and can change only the gain value of channel c.
C9_SetVolumeFrame ==
    [][\A c \in Channels :
         (last'.op = "setVolume" /\ last'.ch = c) =>
            /\ last'.ret # "throw"
            /\ currentPlayingSound' = currentPlayingSound
            /\ audioContext' = audioContext
            /\ status' = status /\ orphans' = orphans /\ timer' = timer
            /\ \A d \in Channels \ {c} : sounds'[d] = sounds[d]
            /\ sounds'[c].playing = sounds[c].playing
            /\ SameButLastValue(sounds'[c].nodes, sounds[c].nodes)
            /\ ~sounds[c].playing => sounds' = sounds]_vars

\* C9 witness: setVolume has run on a stopped channel while another channel
\* plays, and the stopped one is still stopped with an empty node list.
C9_Witness ==
    /\ last.op = "setVolume"
    /\ last.ret = "none"
    /\ sounds[last.ch] = StoppedSound
    /\ PlayingSet # {}

\* The beat frequency the claim gives each binaural channel.
ClaimedBeat(c) ==
    CASE c = "alpha" -> 10
      [] c = "theta" -> 6
      [] c = "beta"  -> 20
      [] c = "gamma" -> 40

\* C10: a started binaural channel has a left tone of exactly 200 Hz panned
\* fully left (-1) and a right tone of 200 + f Hz panned fully right (+1),
\* f being 10 for alpha, 6 for theta, 20 for beta and 40 for gamma, so that
\* right minus left is f.
C10_BinauralTones ==
    \A c \in Channels \ {"rain"} :
        sounds[c].playing =>
            LET ns == Nodes(c)
            IN  /\ Len(ns) = 5
                /\ ns[1].kind = "oscillator" /\ ns[1].side = "left"
                /\ ns[1].value = 200
                /\ ns[2].kind = "oscillator" /\ ns[2].side = "right"
                /\ ns[2].value = 200 + ClaimedBeat(c)
                /\ ns[2].value - ns[1].value = ClaimedBeat(c)
                /\ ns[3].kind = "panner" /\ ns[3].side = "left"
                /\ ns[3].value = -1
                /\ ns[4].kind = "panner" /\ ns[4].side = "right"
                /\ ns[4].value = 1
                /\ ns[1].started /\ ns[2].started

\* C10 witness: the four binaural channels have all been started.
C10_Witness ==
    /\ last.op = "toggle"
    /\ last.ret = "true"
    /\ Channels \ {"rain"} \subseteq PlayingSet

\* C11: right after PomodoroTimer.reset() or PomodoroTimer.complete() every
\* channel is stopped with an empty node list and the last-played memory is
\* empty, whatever channels were playing before.
C11_TimerStopsSounds ==
    last.op \in {"reset", "complete"} =>
        /\ \A c \in Channels : sounds[c] = StoppedSound
        /\ currentPlayingSound = NULL

\* C11 witness: a session has completed while a channel was playing and
\* remembered, and the timer is back at its full time, not running.
C11_Witness ==
    /\ last.op = "complete"
    /\ last.pre # {}
    /\ last.mem # NULL
    /\ PlayingSet = {}
    /\ ~timer.isRunning
    /\ timer.timeRemaining = timer.totalTime

\* C12: the engine's audio context is a singleton: the engine constructs at
\* most one context, a further ensureContext never replaces it, and once
\* the handle is set it is never unset or changed.
C12_ContextSingleton ==
    [][/\ constructed' <= 1
       /\ audioContext # NoContext =>
             /\ audioContext' # NoContext
             /\ audioContext'.id = audioContext.id]_vars

\* C12 witness: with the one context constructed earlier, a later toggle
\* has started a second channel on it.
C12_Witness ==
    /\ last.op = "toggle"
    /\ last.pre # {}
    /\ last.ret = "true"
    /\ constructed = 1
    /\ audioContext.id = 1

\* What tells one node object from another.
Identity(node) == <<node.owner, node.kind, node.side>>

\* C13: no node leaks and no node is shared: no node that has left the node
\* lists is still connected or generating (a channel that stops has
\* disconnected every node it owned and halted both of its oscillators),
\* only a playing channel holds nodes, and every node held is in the list
\* of the one channel it was created for, once.
C13_NoLeakNoShare ==
    /\ orphans = {}
    /\ \A c \in Channels :
          /\ Nodes(c) # <<>> => sounds[c].playing
          /\ \A i \in 1..Len(Nodes(c)) :
                /\ Nodes(c)[i].owner = c
                /\ \A j \in 1..Len(Nodes(c)) :
                      Identity(Nodes(c)[i]) = Identity(Nodes(c)[j]) => i = j

\* C13 witness: a toggle has stopped a binaural channel, which holds no
\* node any more, while another channel still plays with its own nodes.
C13_Witness ==
    /\ last.op = "toggle"
    /\ last.ret = "false"
    /\ last.ch # "rain"
    /\ last.ch \in last.pre
    /\ sounds[last.ch] = StoppedSound
    /\ PlayingSet # {}

\* C14: a redundant stop is absorbed: stop(c) raises nothing and ends with
\* c stopped, its node list empty and every node it owned disconnected,
\* also when one of its generators has ended before (so that halting it
\* fails); on a stopped channel it changes nothing.  The same holds of
\* every operation that stops a playing channel.
C14_RedundantStopAbsorbed ==
    [][\A c \in Channels :
         /\ (last'.op = "stop" /\ last'.ch = c) =>
               /\ last'.ret = "none"
               /\ sounds'[c] = StoppedSound
               /\ orphans' = {}
               /\ \A d \in Channels \ {c} : sounds'[d] = sounds[d]
               /\ ~sounds[c].playing =>
                     /\ sounds' = sounds
                     /\ audioContext' = audioContext
                     /\ currentPlayingSound' = currentPlayingSound
         /\ (sounds[c].playing /\ ~sounds'[c].playing) =>
               /\ last'.ret # "throw"
               /\ sounds'[c] = StoppedSound
               /\ orphans' = {}]_vars

\* C14 witness: stop(c) has run right after a generator of the playing
\* channel c had ended, and c is stopped with an empty node list.
C14_Witness ==
    /\ last.op = "stop"
    /\ last.follows
    /\ last.ch \in last.pre
    /\ last.ret = "none"
    /\ sounds[last.ch] = StoppedSound
    /\ orphans = {}

\* C15: where the construction of the audio context fails (the platform
\* offers none), toggle(c) raises to its caller instead of returning a
\* playing value, and leaves channel c stopped with an empty node list,
\* every other channel as it was and the context handle unset.
C15_ConstructionFailureSurfaces ==
    [][\A c \in Channels :
         (last'.op = "toggle" /\ last'.ch = c /\ ~platform.audio) =>
            /\ last'.ret = "throw"
            /\ sounds'[c] = StoppedSound
            /\ \A d \in Channels \ {c} : sounds'[d] = sounds[d]
            /\ audioContext' = NoContext]_vars

\* C15 witness: on a platform without audio a toggle has raised, and its
\* channel is stopped with no node and no context exists.
C15_Witness ==
    /\ ~platform.audio
    /\ last.op = "toggle"
    /\ last.ret = "throw"
    /\ sounds[last.ch] = StoppedSound
    /\ audioContext = NoContext
    /\ constructed = 0

\* The number of nodes of the graph of channel c.
GraphSize(c) == IF c = "rain" THEN 2 ELSE 5

\* C16: under any interleaving of overlapping toggle calls, decision and
\* mutation are one step: between steps no channel is half started (it
\* plays exactly when it holds nodes), and a channel's node list grows only
\* in a step that finds the channel stopped with an empty list and leaves
\* it playing with exactly one graph, so that two overlapping toggles of a
\* channel never both build a graph for it.
C16_ToggleAtomic ==
    [][\A c \in Channels :
         /\ sounds'[c].playing <=> sounds'[c].nodes # <<>>
         /\ Len(sounds'[c].nodes) > Len(sounds[c].nodes) =>
               /\ sounds[c] = StoppedSound
               /\ sounds'[c].playing
               /\ Len(sounds'[c].nodes) = GraphSize(c)]_vars

\* C16 witness: while a toggle that started a channel is still suspended,
\* a second toggle of that channel has run and stopped it.
C16_Witness ==
    /\ last.op = "toggle"
    /\ last.ret = "false"
    /\ \E i \in 1..Len(calls) : calls[i].ch = last.ch /\ calls[i].pc = "return"
    /\ sounds[last.ch] = StoppedSound

\* The context is suspended and a resume() of it has not been settled.
ResumePending(ctx) == ctx.state = "suspended" /\ ctx.resumeRequested

\* C17: the resume of a suspended context is awaited before a graph is
\* built: a step that ends with the resume still pending has created no
\* node of any channel and has marked no channel playing.
C17_ResumeAwaited ==
    [][ResumePending(audioContext') =>
          \A c \in Channels :
              /\ Len(sounds'[c].nodes) <= Len(sounds[c].nodes)
              /\ sounds'[c].playing => sounds[c].playing]_vars

\* C18: a context that stays suspended is tolerated: a toggle(c) or
\* resumeLast() made while the platform has not settled the resume has
\* completed without raising and has returned a playing value (a
\* resumeLast() with no channel remembered has nothing to return).
C18_SuspendedTolerated ==
    (/\ last.op \in {"toggle", "resumeLast"}
     /\ audioContext.state = "suspended") =>
        IF last.op = "resumeLast" /\ last.mem = NULL
        THEN last.ret = "none"
        ELSE last.ret \in {"true", "false"}

Abs(n) == IF n < 0 THEN -n ELSE n

\* C19: the rain generator's filter state stays bounded: starting from 0,
\* under y[n] = (y[n-1] + 0.02 x[n]) / 1.02 with every x[n] in [-1, 1],
\* |y[n]| <= 1 after every block of a playing session and at every sample
\* of the block that follows.
C19_RainBounded ==
    RainRuns =>
        /\ Abs(lastOut) <= Scale
        /\ \A whites \in [1..bufferSize -> WhiteSamples], k \in 1..bufferSize :
              \A y \in onaudioprocess(lastOut, whites, k) : Abs(y) <= Scale

\* C19 witness: after a block the filter state is more than half way to
\* the bound.
C19_Witness ==
    /\ last.op = "audioprocess"
    /\ RainRuns
    /\ Abs(lastOut) * 2 > Scale

\* The fixed iteration order of the claim, as the place of each channel.
ClaimedPlace(c) ==
    CASE c = "rain"  -> 1
      [] c = "alpha" -> 2
      [] c = "theta" -> 3
      [] c = "beta"  -> 4
      [] c = "gamma" -> 5

\* C20: after pauseAll() every channel is stopped; when channels were
\* playing the last-played memory holds the one of them that comes latest
\* in the order rain, alpha, theta, beta, gamma; when none was playing the
\* memory keeps the value it had.
C20_PauseAllKeepsLatest ==
    last.op = "pauseAll" =>
        /\ \A c \in Channels : sounds[c] = StoppedSound
        /\ last.pre # {} =>
              /\ currentPlayingSound \in last.pre
              /\ \A c \in last.pre :
                    ClaimedPlace(c) <= ClaimedPlace(currentPlayingSound)
        /\ last.pre = {} => currentPlayingSound = last.mem

\* C20 witness: pauseAll() has run with several channels playing and
\* another channel remembered, and the memory now holds one of those that
\* were playing.
C20_Witness ==
    /\ last.op = "pauseAll"
    /\ Cardinality(last.pre) >= 2
    /\ last.mem # NULL
    /\ last.mem \notin last.pre
    /\ currentPlayingSound \in last.pre
    /\ PlayingSet = {}

\* C21: the last-played memory is consumed by resume: once resumeLast()
\* has consulted it, it no longer holds the resumed channel, and a second
\* resumeLast() with no pauseAll() in between changes no channel state.
C21_ResumeConsumesMemory ==
    [][/\ (last'.op = "resumeLast" /\ last'.mem # NULL) =>
             currentPlayingSound' # last'.mem
       /\ (last.op = "resumeLast" /\ last'.op = "resumeLast") =>
             sounds' = sounds]_vars

\* C22: channels are independently controllable: toggle(c) and
\* setVolume(c, p) leave the playing flag, the node list and the gain of
\* every other channel as they were, so a toggle that starts a channel
\* stops no other and any set of channels can play at once.
C22_ChannelsIndependent ==
    [][\A c \in Channels :
         (last'.op \in {"toggle", "setVolume"} /\ last'.ch = c) =>
            /\ \A d \in Channels \ {c} : sounds'[d] = sounds[d]
            /\ {d \in Channels : sounds[d].playing} \ {c}
                  \subseteq {d \in Channels : sounds'[d].playing}]_vars

\* C22 witness: a toggle has started the fifth channel and all five play.
C22_Witness ==
    /\ last.op = "toggle"
    /\ last.ret = "true"
    /\ Cardinality(last.pre) = 4
    /\ PlayingSet = Channels

\* The kinds of the nodes of the graph of channel c, in the claim's order.
ClaimedKinds(c) ==
    IF c = "rain" THEN <<"script", "gain">>
    ELSE <<"oscillator", "oscillator", "panner", "panner", "gain">>

\* C23: in every state the node list of a playing channel holds exactly
\* one graph (noise source, gain for rain; left oscillator, right
\* oscillator, left panner, right panner, gain for a binaural channel),
\* its last element being the channel's gain stage.
C23_GainLast ==
    \A c \in Channels :
        sounds[c].playing =>
            /\ Len(Nodes(c)) = Len(ClaimedKinds(c))
            /\ \A i \in 1..Len(Nodes(c)) : Nodes(c)[i].kind = ClaimedKinds(c)[i]
            /\ Nodes(c)[Len(Nodes(c))].kind = "gain"
            /\ c # "rain" => /\ Nodes(c)[1].side = "left"
                             /\ Nodes(c)[2].side = "right"
                             /\ Nodes(c)[3].side = "left"
                             /\ Nodes(c)[4].side = "right"

\* C23 witness: a channel paused and resumed plays with one graph again
\* while the rain channel plays with its two nodes.
C23_Witness ==
    /\ last.op = "resumeLast"
    /\ last.mem # NULL
    /\ last.mem # "rain"
    /\ last.mem \notin last.pre
    /\ sounds[last.mem].playing
    /\ Len(Nodes(last.mem)) = 5
    /\ Len(Nodes("rain")) = 2

\* C24: the page never diverges from the channel record: after every
\* event handler (sound button, start/pause button, reset, completion of
\* the timer) the status label of each channel shows 'Playing' if and only
\* if the channel's playing flag is true.
C24_StatusMatchesPlaying ==
    \A c \in Channels : (status[c] = "Playing") <=> sounds[c].playing

\* C24 witness: the start button has paused a session in which two
\* channels played; no label shows 'Playing' and no channel plays.
C24_Witness ==
    /\ last.op = "pauseAll"
    /\ Cardinality(last.pre) >= 2
    /\ \A c \in Channels : status[c] = "" /\ ~sounds[c].playing
    /\ ~timer.isRunning

\* C25: a fresh start with a sound choice 1-5 plays the chosen sound: after
\* the start button's handler the channel of the choice is playing, it is
\* the last-played channel and the timer runs, also when that channel had
\* been switched on with its sound button before.
C25_FreshStartPlaysChoice ==
    (last.op = "freshStart" /\ last.ch # NULL) =>
        /\ sounds[last.ch].playing
        /\ currentPlayingSound = last.ch
        /\ timer.isRunning

\* C26: pressed while the timer is not running, the start button takes the
\* resume branch exactly when the user has paused the current session
\* since its last fresh start, reset, mode change or completion, and the
\* fresh-start branch otherwise, also when the pause came before the first
\* tick.
C26_ResumeIffPaused ==
    [][(~timer.isRunning /\ last'.op \in {"resumeLast", "freshStart"}) =>
          (last'.op = "resumeLast" <=> last.paused)]_vars

\* What the claim says holds once complete() has run: the timer is stopped
\* with its interval cleared and its full time, and no channel plays.
Completed ==
    /\ ~timer.isRunning
    /\ ~timer.interval
    /\ timer.timeRemaining = timer.totalTime
    /\ PlayingSet = {}

\* C27: a running timer eventually completes: with no pause, reset, mode
\* change or custom duration, a started timer runs down to complete(),
\* after which it is not running, its interval is cleared, timeRemaining
\* equals totalTime and all channels are stopped; throughout,
\* 0 <= timeRemaining <= totalTime.  Stated for the tick that calls
\* complete(), which every fair run of a started timer reaches.
C27_TimerCompletes ==
    /\ 0 <= timer.timeRemaining /\ timer.timeRemaining <= timer.totalTime
    /\ last.op = "complete" => Completed

====
